---- MODULE Spec2Model ----
(***************************************************************************)
(* Batch Count & Allocation Ledger of PoultryPal                           *)
(* (API/src/batch/batch.controller.js, batch.model.js,                     *)
(* birdCountHistory.model.js, house.model.js).                             *)
(*                                                                         *)
(* Every request handler is an async function; each `await` of a storage   *)
(* call is a suspension point, so a handler is modelled as one action per  *)
(* awaited storage operation.  The synchronous code between two awaits is  *)
(* part of the action of the await that precedes it.                       *)
(***************************************************************************)
EXTENDS Integers, Sequences, FiniteSets, TLC

(***************************************************************************)
(* Bounds of the model.                                                    *)
(***************************************************************************)
\* request slots that may be in flight at the same time
ConcReqs == 2
\* calls made one after the other by the sequential client
MaxCalls == 4
\* largest quantity asked for by an allocation request
MaxQuantity == 2

Reqs == 1..ConcReqs

(***************************************************************************)
(* Optional values: `null` / a found document.                             *)
(***************************************************************************)
Null == <<>>
Some(x) == <<x>>
IsNull(o) == o = <<>>
Val(o) == o[1]

\* req.user.farmId of a user that belongs to no farm
NoFarm == "none"

VARIABLES
  batches,      \* Batch collection: id -> document
  houses,       \* House collection: id -> document
  allocations,  \* BatchAllocation collection, in insertion order
  history,      \* BirdCountHistory collection, in insertion order
  pc,           \* per request: the await it is suspended at
  req,          \* per request: user and body/params of the request
  loc,          \* per request: the handler's local variables
  res,          \* per request: the response sent
  calls         \* number of requests received so far

vars == <<batches, houses, allocations, history, pc, req, loc, res, calls>>
store == <<batches, houses, allocations, history>>

(***************************************************************************)
(* Documents.                                                              *)
(***************************************************************************)
\* createBatch: counters start at zero, isArchived defaults to false
NewBatch(id, farm, original) ==
  [id |-> id, farmId |-> farm, originalCount |-> original,
   dead |-> 0, culled |-> 0, offlaid |-> 0, isArchived |-> FALSE]

\* houseSchema: capacity is an optional Number
NewHouse(id, farm, hasCap, cap) ==
  [id |-> id, farmId |-> farm, hasCapacity |-> hasCap, capacity |-> cap]

\* batchSchema.virtual('currentCount')
currentCount(b) == b.originalCount - (b.dead + b.culled + b.offlaid)

\* the {dead, culled, offlaid, currentCount} snapshot of a batch document
CountState(b) ==
  [dead |-> b.dead, culled |-> b.culled, offlaid |-> b.offlaid,
   currentCount |-> currentCount(b)]

\* Batch.findOne({ id, farmId })
FindBatch(id, farm) ==
  IF id \in DOMAIN batches /\ batches[id].farmId = farm
  THEN Some(batches[id]) ELSE Null

\* House.findOne({ id, farmId })
FindHouse(id, farm) ==
  IF id \in DOMAIN houses /\ houses[id].farmId = farm
  THEN Some(houses[id]) ELSE Null

\* `house.capacity && ...`: an unset capacity and a capacity of 0 are falsy
HasCapacity(h) == h.hasCapacity /\ h.capacity # 0

\* new BatchAllocation({ batchId, houseId, quantity }), the id standing for
\* the uuid of the document
NewAllocation(id, batchId, houseId, quantity) ==
  [id |-> id, batchId |-> batchId, houseId |-> houseId, quantity |-> quantity]

\* BatchAllocation.find({ batchId })
AllocationsOfBatch(batchId) == SelectSeq(allocations, LAMBDA a : a.batchId = batchId)

\* BatchAllocation.find({ houseId })
AllocationsOfHouse(houseId) == SelectSeq(allocations, LAMBDA a : a.houseId = houseId)

\* BatchAllocation.findOne({ batchId, houseId }): the first document that
\* matches
FindAllocation(batchId, houseId) ==
  LET found == SelectSeq(allocations,
                         LAMBDA a : a.batchId = batchId /\ a.houseId = houseId)
  IN IF found = <<>> THEN Null ELSE Some(Head(found))

\* BatchAllocation.findOne({ id })
FindAllocationById(id) ==
  IF id \in DOMAIN allocations THEN Some(allocations[id]) ELSE Null

RECURSIVE sumQuantity(_)
\* docs.reduce((sum, allocation) => sum + allocation.quantity, 0)
sumQuantity(docs) ==
  IF docs = <<>> THEN 0 ELSE Head(docs).quantity + sumQuantity(Tail(docs))

\* batchSchema.methods.getAllocatedCount
getAllocatedCount(batchId) == sumQuantity(AllocationsOfBatch(batchId))

\* `doc.quantity = n` on the loaded document l[name]: the path is marked
\* modified when the value changes
SetQuantity(l, name, n) ==
  [l EXCEPT ![name] = Some([Val(@) EXCEPT !.quantity = n]),
            !.modified = IF Val(l[name]).quantity = n THEN @ ELSE @ \cup {name}]

\* doc.save() of the loaded document l[name]: the modified quantity is set
\* on the stored document with that id; nothing is written when nothing was
\* modified
SavedAllocation(l, name) ==
  IF name \in l.modified
  THEN [allocations EXCEPT ![Val(l[name]).id].quantity = Val(l[name]).quantity]
  ELSE allocations

RECURSIVE Reversed(_)
\* .sort({ createdAt: -1 }) of documents in insertion order
Reversed(docs) ==
  IF docs = <<>> THEN <<>> ELSE Append(Reversed(Tail(docs)), Head(docs))

\* doc.save() of a new allocation
InsertedAllocation(batchId, houseId, quantity) ==
  Append(allocations, NewAllocation(Len(allocations) + 1, batchId, houseId, quantity))

(***************************************************************************)
(* Requests, locals, responses.                                            *)
(***************************************************************************)
\* a request body: the counters it carries, their values, and the carried
\* counters whose value is not an integer (the modelled value is then the
\* integer below it: dead |-> 1 with "dead" in fractional stands for 1.5)
NoDelta ==
  [fields |-> {}, fractional |-> {}, dead |-> 0, culled |-> 0, offlaid |-> 0,
   originalCount |-> 0, newFarmId |-> ""]

MkReq(op, farm, batchId, houseId, toHouseId, allocationId, quantity, d) ==
  [op |-> op, farmId |-> farm, batchId |-> batchId, houseId |-> houseId,
   toHouseId |-> toHouseId, allocationId |-> allocationId,
   quantity |-> quantity, fields |-> d.fields, fractional |-> d.fractional,
   dead |-> d.dead, culled |-> d.culled, offlaid |-> d.offlaid,
   originalCount |-> d.originalCount, newFarmId |-> d.newFarmId]

NoReq == MkReq("none", NoFarm, "", "", "", 0, 0, NoDelta)

NoLoc ==
  [batch |-> Null, beforeState |-> Null, updatedBatch |-> Null,
   house |-> Null, allocation |-> Null,
   fromAllocation |-> Null, toAllocation |-> Null,
   allocatedCount |-> 0, modified |-> {}]

NoRes == [status |-> 0, error |-> "none", body |-> Null]
Response(status, error) == [status |-> status, error |-> error, body |-> Null]
ResponseWith(status, error, body) == [status |-> status, error |-> error, body |-> Some(body)]

\* `x !== undefined` for a body field
Has(q, f) == f \in q.fields

\* Number.isInteger(x) for a body field
IsInteger(q, f) == f \notin q.fractional

\* `x || 0` for a body field
OrZero(q, f) == IF Has(q, f) THEN q[f] ELSE 0

Finish(r, response) ==
  /\ pc' = [pc EXCEPT ![r] = "done"]
  /\ res' = [res EXCEPT ![r] = response]

Goto(r, label) ==
  /\ pc' = [pc EXCEPT ![r] = label]
  /\ UNCHANGED res

\* the handler of a received request reaches its first await: nothing has
\* been answered yet
Begin(r, label) ==
  /\ pc' = [pc EXCEPT ![r] = label]
  /\ res' = [res EXCEPT ![r] = NoRes]

\* a request that is received: the handler starts with fresh locals
Receive(r, q) ==
  /\ req' = [req EXCEPT ![r] = q]
  /\ loc' = [loc EXCEPT ![r] = NoLoc]
  /\ calls' = calls + 1

(***************************************************************************)
(* Clients.                                                                *)
(***************************************************************************)
\* concurrent clients: every slot carries one request, slots are taken in
\* order of arrival
Fresh(r) ==
  /\ pc[r] = "idle"
  /\ \A s \in Reqs : s < r => pc[s] # "idle"

\* the sequential client: one request at a time, the next one after the
\* response to the previous one
Serial(r) ==
  /\ r = 1
  /\ pc[r] \in {"idle", "done"}
  /\ calls < MaxCalls

(***************************************************************************)
(* Initial state: the farms' batches and houses exist, nothing is          *)
(* allocated and no loss has been recorded.                                *)
(***************************************************************************)
InitBatches ==
  [b \in {"b1", "b2", "b3"} |->
     CASE b = "b1" -> NewBatch("b1", "f1", 3)
       [] b = "b2" -> NewBatch("b2", "f1", 2)
       [] b = "b3" -> NewBatch("b3", "f2", 2)]

InitHouses ==
  [h \in {"h1", "h2", "h3", "h4"} |->
     CASE h = "h1" -> NewHouse("h1", "f1", TRUE, 2)
       [] h = "h2" -> NewHouse("h2", "f1", FALSE, 0)
       [] h = "h3" -> NewHouse("h3", "f2", TRUE, 2)
       [] h = "h4" -> NewHouse("h4", "f1", TRUE, 0)]

Init ==
  /\ batches = InitBatches
  /\ houses = InitHouses
  /\ allocations = <<>>
  /\ history = <<>>
  /\ pc = [r \in Reqs |-> "idle"]
  /\ req = [r \in Reqs |-> NoReq]
  /\ loc = [r \in Reqs |-> NoLoc]
  /\ res = [r \in Reqs |-> NoRes]
  /\ calls = 0

(***************************************************************************)
(* updateBirdCounts                                                        *)
(***************************************************************************)
\* "at least one count must be provided"
UBC_NoneProvided(q) == ~Has(q, "dead") /\ ~Has(q, "culled") /\ ~Has(q, "offlaid")

\* a plausible slip: the sign is checked, Number.isInteger is not
UBC_Invalid_NoIntegerCheck(q) ==
  \/ Has(q, "dead") /\ q.dead < 0
  \/ Has(q, "culled") /\ q.culled < 0
  \/ Has(q, "offlaid") /\ q.offlaid < 0
\* "bird counts must be non-negative integers"
UBC_Invalid(q) ==
  \/ Has(q, "dead") /\ (q.dead < 0 \/ ~IsInteger(q, "dead"))
  \/ Has(q, "culled") /\ (q.culled < 0 \/ ~IsInteger(q, "culled"))
  \/ Has(q, "offlaid") /\ (q.offlaid < 0 \/ ~IsInteger(q, "offlaid"))

newDead(b, q) == IF Has(q, "dead") THEN b.dead + q.dead ELSE b.dead
newCulled(b, q) == IF Has(q, "culled") THEN b.culled + q.culled ELSE b.culled
newOfflaid(b, q) == IF Has(q, "offlaid") THEN b.offlaid + q.offlaid ELSE b.offlaid

\* a plausible slip: the off-laid birds are left out of the total
UBC_ExceedsOriginal_NoOfflaid(b, q) ==
  newDead(b, q) + newCulled(b, q) > b.originalCount

\* "validate totals don't exceed original count"
UBC_ExceedsOriginal(b, q) ==
  newDead(b, q) + newCulled(b, q) + newOfflaid(b, q) > b.originalCount

\* a plausible slip: load, mutate in memory, save (the totals computed from
\* the document read before the check are written back)
UBC_Incremented_ReadModifyWrite(r) ==
  [batches[req[r].batchId] EXCEPT
     !.dead = newDead(Val(loc[r].batch), req[r]),
     !.culled = newCulled(Val(loc[r].batch), req[r]),
     !.offlaid = newOfflaid(Val(loc[r].batch), req[r])]

\* { $inc: incrementUpdate } applied by the storage engine to the stored
\* document
UBC_Incremented(r) ==
  [batches[req[r].batchId] EXCEPT
     !.dead = @ + OrZero(req[r], "dead"),
     !.culled = @ + OrZero(req[r], "culled"),
     !.offlaid = @ + OrZero(req[r], "offlaid")]

\* the BirdCountHistory document of a request
UBC_HistoryEntry(r) ==
  [batchId |-> Val(loc[r].batch).id,
   farmId |-> req[r].farmId,
   dead |-> OrZero(req[r], "dead"),
   culled |-> OrZero(req[r], "culled"),
   offlaid |-> OrZero(req[r], "offlaid"),
   beforeState |-> Val(loc[r].beforeState),
   afterState |-> CountState(Val(loc[r].updatedBatch))]

\* the request arrives: the synchronous checks up to the first await
UBC_Start(r, users, batchIds, deltas) ==
  \E u \in users, b \in batchIds, d \in deltas :
    LET q == MkReq("updateBirdCounts", u, b, "", "", 0, 0, d) IN
    /\ Receive(r, q)
    /\ IF u = NoFarm THEN Finish(r, Response(400, "NoFarm"))
       ELSE IF UBC_NoneProvided(q) \/ UBC_Invalid(q)
            THEN Finish(r, Response(400, "InvalidInput"))
       ELSE Begin(r, "ubcFindOne")
    /\ UNCHANGED store

\* await Batch.findOne, then the check of the prospective totals
UBC_FindOne(r) ==
  /\ pc[r] = "ubcFindOne"
  /\ LET batch == FindBatch(req[r].batchId, req[r].farmId) IN
     IF IsNull(batch) THEN
       /\ Finish(r, Response(404, "NotFound"))
       /\ UNCHANGED loc
     ELSE IF UBC_ExceedsOriginal(Val(batch), req[r]) THEN
       /\ Finish(r, Response(400, "ConstraintViolation"))
       /\ UNCHANGED loc
     ELSE
       /\ Goto(r, "ubcFindOneAndUpdate")
       /\ loc' = [loc EXCEPT ![r].batch = batch,
                             ![r].beforeState = Some(CountState(Val(batch)))]
  /\ UNCHANGED <<store, req, calls>>

\* await Batch.findOneAndUpdate({ id, farmId }, { $inc }, { new: true })
UBC_FindOneAndUpdate(r) ==
  /\ pc[r] = "ubcFindOneAndUpdate"
  /\ IF IsNull(FindBatch(req[r].batchId, req[r].farmId)) THEN
       /\ Finish(r, Response(404, "NotFound"))
       /\ UNCHANGED <<batches, loc>>
     ELSE
       /\ batches' = [batches EXCEPT ![req[r].batchId] = UBC_Incremented(r)]
       /\ loc' = [loc EXCEPT ![r].updatedBatch = Some(UBC_Incremented(r))]
       /\ Goto(r, "ubcSaveHistory")
  /\ UNCHANGED <<houses, allocations, history, req, calls>>

\* a plausible slip: one history document per batch, replaced by the latest
\* entry (an upsert keyed on batchId)
UBC_HistorySaved_Upsert(r) ==
  Append(SelectSeq(history, LAMBDA e : e.batchId # req[r].batchId),
         UBC_HistoryEntry(r))
\* the collection after historyEntry.save() of a new BirdCountHistory
\* document: an insert
UBC_HistorySaved(r) ==
  Append(history, UBC_HistoryEntry(r))

\* await historyEntry.save(), then the 200 response
UBC_SaveHistory(r) ==
  /\ pc[r] = "ubcSaveHistory"
  /\ history' = UBC_HistorySaved(r)
  /\ Finish(r, Response(200, "none"))
  /\ UNCHANGED <<batches, houses, allocations, req, loc, calls>>

(***************************************************************************)
(* createBatchAllocation                                                   *)
(***************************************************************************)
\* a plausible slip: the request is compared with the batch's current count
\* alone, not with what is left unallocated
CBA_NotEnoughUnallocated_CurrentCountOnly(batch, allocatedCount, quantity) ==
  quantity > currentCount(batch)

\* `quantity > unallocatedCount`
CBA_NotEnoughUnallocated(batch, allocatedCount, quantity) ==
  quantity > currentCount(batch) - allocatedCount

\* the body of the "not enough unallocated birds" response
CBA_UnallocatedBody(batch, allocatedCount, quantity) ==
  [currentCount |-> currentCount(batch),
   allocatedCount |-> allocatedCount,
   unallocatedCount |-> currentCount(batch) - allocatedCount,
   requestedQuantity |-> quantity]

\* createBatchAllocationSchema applied to the body by the validation
\* middleware: quantity is an integer >= 1
CBA_SchemaRejects(quantity) == quantity < 1

\* the request arrives: the body is validated against
\* createBatchAllocationSchema ("Validation failed"), then the handler runs
CBA_Start(r, users, batchIds, houseIds, quantities) ==
  \E u \in users, b \in batchIds, h \in houseIds, n \in quantities :
    /\ Receive(r, MkReq("createBatchAllocation", u, b, h, "", 0, n, NoDelta))
    /\ IF CBA_SchemaRejects(n) THEN Finish(r, Response(400, "ValidationFailed"))
       ELSE IF u = NoFarm THEN Finish(r, Response(400, "NoFarm"))
       ELSE Begin(r, "cbaFindBatch")
    /\ UNCHANGED store

\* await Batch.findOne({ id: batchId, farmId })
CBA_FindBatch(r) ==
  /\ pc[r] = "cbaFindBatch"
  /\ LET batch == FindBatch(req[r].batchId, req[r].farmId) IN
     IF IsNull(batch) THEN
       /\ Finish(r, Response(404, "NotFound"))
       /\ UNCHANGED loc
     ELSE
       /\ Goto(r, "cbaGetAllocatedCount")
       /\ loc' = [loc EXCEPT ![r].batch = batch]
  /\ UNCHANGED <<store, req, calls>>

\* await batch.getAllocatedCount(), then the unallocated-count check
CBA_GetAllocatedCount(r) ==
  /\ pc[r] = "cbaGetAllocatedCount"
  /\ LET batch == Val(loc[r].batch)
         allocatedCount == getAllocatedCount(batch.id)
     IN IF CBA_NotEnoughUnallocated(batch, allocatedCount, req[r].quantity)
        THEN Finish(r, ResponseWith(400, "InsufficientUnallocated",
                      CBA_UnallocatedBody(batch, allocatedCount, req[r].quantity)))
        ELSE Goto(r, "cbaFindHouse")
  /\ UNCHANGED <<store, req, loc, calls>>

\* await House.findOne({ id: houseId, farmId })
CBA_FindHouse(r) ==
  /\ pc[r] = "cbaFindHouse"
  /\ LET house == FindHouse(req[r].houseId, req[r].farmId) IN
     IF IsNull(house) THEN
       /\ Finish(r, Response(404, "NotFound"))
       /\ UNCHANGED loc
     ELSE
       /\ Goto(r, "cbaFindExisting")
       /\ loc' = [loc EXCEPT ![r].house = house]
  /\ UNCHANGED <<store, req, calls>>

\* await BatchAllocation.findOne({ batchId, houseId }), then the capacity
\* check of this batch's own quantity in the house
CBA_FindExisting(r) ==
  /\ pc[r] = "cbaFindExisting"
  /\ LET existingAllocation == FindAllocation(req[r].batchId, req[r].houseId)
         existingQuantity == IF IsNull(existingAllocation) THEN 0
                             ELSE Val(existingAllocation).quantity
         totalQuantity == existingQuantity + req[r].quantity
         house == Val(loc[r].house)
     IN IF HasCapacity(house) /\ totalQuantity > house.capacity THEN
          /\ Finish(r, Response(400, "CapacityExceeded"))
          /\ UNCHANGED loc
        ELSE
          /\ Goto(r, "cbaFindHouseAllocations")
          /\ loc' = [loc EXCEPT ![r].allocation = existingAllocation]
  /\ UNCHANGED <<store, req, calls>>

\* await BatchAllocation.find({ houseId }), then the check of the house's
\* occupancy across all batches; on success existingAllocation.quantity is
\* increased in memory
CBA_FindHouseAllocations(r) ==
  /\ pc[r] = "cbaFindHouseAllocations"
  /\ LET currentHouseOccupancy == sumQuantity(AllocationsOfHouse(req[r].houseId))
         newTotalOccupancy == currentHouseOccupancy + req[r].quantity
         house == Val(loc[r].house)
         existing == loc[r].allocation
     IN IF HasCapacity(house) /\ newTotalOccupancy > house.capacity THEN
          /\ Finish(r, Response(400, "CapacityExceeded"))
          /\ UNCHANGED loc
        ELSE
          /\ Goto(r, "cbaSave")
          /\ loc' = [loc EXCEPT ![r] =
                       IF IsNull(existing) THEN @
                       ELSE SetQuantity(@, "allocation",
                                        Val(existing).quantity + req[r].quantity)]
  /\ UNCHANGED <<store, req, calls>>

\* await existingAllocation.save() / allocation.save(), then the 201
CBA_Save(r) ==
  /\ pc[r] = "cbaSave"
  /\ allocations' =
       IF IsNull(loc[r].allocation)
       THEN InsertedAllocation(req[r].batchId, req[r].houseId, req[r].quantity)
       ELSE SavedAllocation(loc[r], "allocation")
  /\ Finish(r, Response(201, "none"))
  /\ UNCHANGED <<batches, houses, history, req, loc, calls>>

(***************************************************************************)
(* transferBirds                                                           *)
(***************************************************************************)
\* the request arrives
TB_Start(r, users, batchIds, fromHouseIds, toHouseIds, quantities) ==
  \E u \in users, b \in batchIds, f \in fromHouseIds, t \in toHouseIds,
     n \in quantities :
    /\ Receive(r, MkReq("transferBirds", u, b, f, t, 0, n, NoDelta))
    /\ IF u = NoFarm THEN Finish(r, Response(400, "NoFarm"))
       ELSE Begin(r, "tbFindBatch")
    /\ UNCHANGED store

\* await Batch.findOne({ id: batchId, farmId })
TB_FindBatch(r) ==
  /\ pc[r] = "tbFindBatch"
  /\ LET batch == FindBatch(req[r].batchId, req[r].farmId) IN
     IF IsNull(batch) THEN
       /\ Finish(r, Response(404, "NotFound"))
       /\ UNCHANGED loc
     ELSE
       /\ Goto(r, "tbFindFrom")
       /\ loc' = [loc EXCEPT ![r].batch = batch]
  /\ UNCHANGED <<store, req, calls>>

\* the same check with <= in place of <
TB_InsufficientBirds_NotStrict(fromAllocation, quantity) ==
  IsNull(fromAllocation) \/ Val(fromAllocation).quantity <= quantity
\* !fromAllocation || fromAllocation.quantity < quantity
TB_InsufficientBirds(fromAllocation, quantity) ==
  IsNull(fromAllocation) \/ Val(fromAllocation).quantity < quantity

\* await BatchAllocation.findOne({ batchId, houseId: fromHouseId }), then
\* the check of the source quantity
TB_FindFrom(r) ==
  /\ pc[r] = "tbFindFrom"
  /\ LET fromAllocation == FindAllocation(req[r].batchId, req[r].houseId) IN
     IF TB_InsufficientBirds(fromAllocation, req[r].quantity) THEN
       /\ Finish(r, Response(400, "InsufficientBirds"))
       /\ UNCHANGED loc
     ELSE
       /\ Goto(r, "tbFindToHouse")
       /\ loc' = [loc EXCEPT ![r].fromAllocation = fromAllocation]
  /\ UNCHANGED <<store, req, calls>>

\* await House.findOne({ id: toHouseId, farmId })
TB_FindToHouse(r) ==
  /\ pc[r] = "tbFindToHouse"
  /\ LET toHouse == FindHouse(req[r].toHouseId, req[r].farmId) IN
     IF IsNull(toHouse) THEN
       /\ Finish(r, Response(404, "NotFound"))
       /\ UNCHANGED loc
     ELSE
       /\ Goto(r, "tbFindTo")
       /\ loc' = [loc EXCEPT ![r].house = toHouse]
  /\ UNCHANGED <<store, req, calls>>

\* await BatchAllocation.findOne({ batchId, houseId: toHouseId }), then the
\* capacity check; on success fromAllocation.quantity is decreased in memory
TB_FindTo(r) ==
  /\ pc[r] = "tbFindTo"
  /\ LET toAllocation == FindAllocation(req[r].batchId, req[r].toHouseId)
         currentToQuantity == IF IsNull(toAllocation) THEN 0
                              ELSE Val(toAllocation).quantity
         totalToQuantity == currentToQuantity + req[r].quantity
         toHouse == Val(loc[r].house)
     IN IF HasCapacity(toHouse) /\ totalToQuantity > toHouse.capacity THEN
          /\ Finish(r, Response(400, "CapacityExceeded"))
          /\ UNCHANGED loc
        ELSE
          /\ Goto(r, "tbSaveFrom")
          /\ loc' = [loc EXCEPT ![r] =
                       SetQuantity([@ EXCEPT !.toAllocation = toAllocation],
                                   "fromAllocation",
                                   Val(@.fromAllocation).quantity - req[r].quantity)]
  /\ UNCHANGED <<store, req, calls>>

\* await fromAllocation.save(): the debit; then toAllocation.quantity is
\* increased in memory, or the new allocation is built
TB_SaveFrom(r) ==
  /\ pc[r] = "tbSaveFrom"
  /\ allocations' = SavedAllocation(loc[r], "fromAllocation")
  /\ loc' = [loc EXCEPT ![r] =
               IF IsNull(@.toAllocation) THEN @
               ELSE SetQuantity(@, "toAllocation",
                                Val(@.toAllocation).quantity + req[r].quantity)]
  /\ Goto(r, "tbSaveTo")
  /\ UNCHANGED <<batches, houses, history, req, calls>>

\* await toAllocation.save() / newAllocation.save(): the credit; then the
\* response.  `newAllocation` is declared inside the else block, so building
\* the response `to: toAllocation || newAllocation` throws a ReferenceError
\* when toAllocation is null, and the catch block answers 500.
TB_SaveTo(r) ==
  /\ pc[r] = "tbSaveTo"
  /\ IF IsNull(loc[r].toAllocation) THEN
       /\ allocations' = InsertedAllocation(req[r].batchId, req[r].toHouseId,
                                            req[r].quantity)
       /\ Finish(r, Response(500, "ReferenceError"))
     ELSE
       /\ allocations' = SavedAllocation(loc[r], "toAllocation")
       /\ Finish(r, Response(200, "none"))
  /\ UNCHANGED <<batches, houses, history, req, loc, calls>>

(***************************************************************************)
(* updateBatchAllocation                                                   *)
(***************************************************************************)
\* the request arrives
UBA_Start(r, users, allocationIds, quantities) ==
  \E u \in users, a \in allocationIds, n \in quantities :
    /\ Receive(r, MkReq("updateBatchAllocation", u, "", "", "", a, n, NoDelta))
    /\ IF u = NoFarm THEN Finish(r, Response(400, "NoFarm"))
       ELSE Begin(r, "ubaFindAllocation")
    /\ UNCHANGED store

\* await BatchAllocation.findOne({ id: allocationId })
UBA_FindAllocation(r) ==
  /\ pc[r] = "ubaFindAllocation"
  /\ LET allocation == FindAllocationById(req[r].allocationId) IN
     IF IsNull(allocation) THEN
       /\ Finish(r, Response(404, "NotFound"))
       /\ UNCHANGED loc
     ELSE
       /\ Goto(r, "ubaFindBatch")
       /\ loc' = [loc EXCEPT ![r].allocation = allocation]
  /\ UNCHANGED <<store, req, calls>>

\* await Batch.findOne({ id: allocation.batchId, farmId })
UBA_FindBatch(r) ==
  /\ pc[r] = "ubaFindBatch"
  /\ LET batch == FindBatch(Val(loc[r].allocation).batchId, req[r].farmId) IN
     IF IsNull(batch) THEN
       /\ Finish(r, Response(403, "Forbidden"))
       /\ UNCHANGED loc
     ELSE
       /\ Goto(r, "ubaFindHouse")
       /\ loc' = [loc EXCEPT ![r].batch = batch]
  /\ UNCHANGED <<store, req, calls>>

\* await House.findOne({ id: allocation.houseId, farmId }), then the
\* capacity check; on success allocation.quantity is assigned in memory
UBA_FindHouse(r) ==
  /\ pc[r] = "ubaFindHouse"
  /\ LET house == FindHouse(Val(loc[r].allocation).houseId, req[r].farmId) IN
     IF IsNull(house) THEN
       /\ Finish(r, Response(404, "NotFound"))
       /\ UNCHANGED loc
     ELSE IF HasCapacity(Val(house)) /\ req[r].quantity > Val(house).capacity THEN
       /\ Finish(r, Response(400, "CapacityExceeded"))
       /\ UNCHANGED loc
     ELSE
       /\ Goto(r, "ubaSave")
       /\ loc' = [loc EXCEPT ![r] =
                    SetQuantity([@ EXCEPT !.house = house], "allocation",
                                req[r].quantity)]
  /\ UNCHANGED <<store, req, calls>>

\* await allocation.save(), then the 200
UBA_Save(r) ==
  /\ pc[r] = "ubaSave"
  /\ allocations' = SavedAllocation(loc[r], "allocation")
  /\ Finish(r, Response(200, "none"))
  /\ UNCHANGED <<batches, houses, history, req, loc, calls>>

(***************************************************************************)
(* Read-only handlers                                                      *)
(***************************************************************************)
\* .limit(50) of getBirdCountHistory
HistoryLimit == 50

\* getBatchAvailability, getBirdCountHistory or getBatchAllocations arrives
Read_Start(r, op, label, users, batchIds) ==
  \E u \in users, b \in batchIds :
    /\ Receive(r, MkReq(op, u, b, "", "", 0, 0, NoDelta))
    /\ IF u = NoFarm THEN Finish(r, Response(400, "NoFarm"))
       ELSE Begin(r, label)
    /\ UNCHANGED store

\* await Batch.findOne({ id, farmId }) of a read-only handler
Read_FindBatch(r, label, next) ==
  /\ pc[r] = label
  /\ LET batch == FindBatch(req[r].batchId, req[r].farmId) IN
     IF IsNull(batch) THEN
       /\ Finish(r, Response(404, "NotFound"))
       /\ UNCHANGED loc
     ELSE
       /\ Goto(r, next)
       /\ loc' = [loc EXCEPT ![r].batch = batch]
  /\ UNCHANGED <<store, req, calls>>

GBA_Start(r, users, batchIds) ==
  Read_Start(r, "getBatchAvailability", "gbaFindBatch", users, batchIds)

GBA_FindBatch(r) == Read_FindBatch(r, "gbaFindBatch", "gbaGetAllocatedCount")

\* await batch.getAllocatedCount()
GBA_GetAllocatedCount(r) ==
  /\ pc[r] = "gbaGetAllocatedCount"
  /\ loc' = [loc EXCEPT ![r].allocatedCount = getAllocatedCount(req[r].batchId)]
  /\ Goto(r, "gbaGetUnallocatedCount")
  /\ UNCHANGED <<store, req, calls>>

\* await batch.getUnallocatedCount(), which reads the allocations again,
\* then the 200 with the numbers
GBA_GetUnallocatedCount(r) ==
  /\ pc[r] = "gbaGetUnallocatedCount"
  /\ LET batch == Val(loc[r].batch) IN
     Finish(r, ResponseWith(200, "none",
       [originalCount |-> batch.originalCount,
        dead |-> batch.dead, culled |-> batch.culled, offlaid |-> batch.offlaid,
        currentCount |-> currentCount(batch),
        allocatedCount |-> loc[r].allocatedCount,
        unallocatedCount |-> currentCount(batch) - getAllocatedCount(batch.id)]))
  /\ UNCHANGED <<store, req, loc, calls>>

GBH_Start(r, users, batchIds) ==
  Read_Start(r, "getBirdCountHistory", "gbhFindBatch", users, batchIds)

GBH_FindBatch(r) == Read_FindBatch(r, "gbhFindBatch", "gbhFind")

\* await BirdCountHistory.find({ batchId }).sort({ createdAt: -1 }).limit(50)
GBH_Find(r) ==
  /\ pc[r] = "gbhFind"
  /\ LET found == Reversed(SelectSeq(history, LAMBDA e : e.batchId = req[r].batchId))
     IN Finish(r, ResponseWith(200, "none",
                 SubSeq(found, 1, IF Len(found) < HistoryLimit THEN Len(found)
                                  ELSE HistoryLimit)))
  /\ UNCHANGED <<store, req, loc, calls>>

GAL_Start(r, users, batchIds) ==
  Read_Start(r, "getBatchAllocations", "galFindBatch", users, batchIds)

GAL_FindBatch(r) == Read_FindBatch(r, "galFindBatch", "galFind")

\* await BatchAllocation.find({ batchId }).sort({ createdAt: -1 })
GAL_Find(r) ==
  /\ pc[r] = "galFind"
  /\ Finish(r, ResponseWith(200, "none", Reversed(AllocationsOfBatch(req[r].batchId))))
  /\ UNCHANGED <<store, req, loc, calls>>

\* getHouseBatchAllocations arrives
GHA_Start(r, users, houseIds) ==
  \E u \in users, h \in houseIds :
    /\ Receive(r, MkReq("getHouseBatchAllocations", u, "", h, "", 0, 0, NoDelta))
    /\ IF u = NoFarm THEN Finish(r, Response(400, "NoFarm"))
       ELSE Begin(r, "ghaFindHouse")
    /\ UNCHANGED store

\* await House.findOne({ id: houseId, farmId })
GHA_FindHouse(r) ==
  /\ pc[r] = "ghaFindHouse"
  /\ LET house == FindHouse(req[r].houseId, req[r].farmId) IN
     IF IsNull(house) THEN
       /\ Finish(r, Response(404, "NotFound"))
       /\ UNCHANGED loc
     ELSE
       /\ Goto(r, "ghaFind")
       /\ loc' = [loc EXCEPT ![r].house = house]
  /\ UNCHANGED <<store, req, calls>>

\* await BatchAllocation.find({ houseId }).sort({ createdAt: -1 })
GHA_Find(r) ==
  /\ pc[r] = "ghaFind"
  /\ Finish(r, ResponseWith(200, "none", Reversed(AllocationsOfHouse(req[r].houseId))))
  /\ UNCHANGED <<store, req, loc, calls>>

(***************************************************************************)
(* updateBatch                                                             *)
(***************************************************************************)
\* updates.dead !== undefined || updates.culled !== undefined || ...
UB_TrackingProvided(q) == Has(q, "dead") \/ Has(q, "culled") \/ Has(q, "offlaid")

\* updates.x !== undefined ? updates.x : batch.x
UB_newDead(b, q) == IF Has(q, "dead") THEN q.dead ELSE b.dead
UB_newCulled(b, q) == IF Has(q, "culled") THEN q.culled ELSE b.culled
UB_newOfflaid(b, q) == IF Has(q, "offlaid") THEN q.offlaid ELSE b.offlaid

\* "ensure the sum doesn't exceed original count"
UB_ExceedsOriginal(b, q) ==
  UB_newDead(b, q) + UB_newCulled(b, q) + UB_newOfflaid(b, q) > b.originalCount

\* "ensure all values are non-negative"
UB_Negative(b, q) ==
  UB_newDead(b, q) < 0 \/ UB_newCulled(b, q) < 0 \/ UB_newOfflaid(b, q) < 0

\* the stored document after findOneAndUpdate(filter, updates): the fields of
\* the body replace the stored ones; name and notes are not part of the
\* modelled document
UB_Updated(b, q) ==
  [b EXCEPT !.dead = UB_newDead(b, q),
            !.culled = UB_newCulled(b, q),
            !.offlaid = UB_newOfflaid(b, q),
            !.originalCount = IF Has(q, "originalCount") THEN q.originalCount ELSE @,
            !.farmId = IF Has(q, "farmId") THEN q.newFarmId ELSE @]

\* a plausible slip: the schema lets unknown keys through (.unknown(true))
UB_SchemaRejects_AllowUnknown(q) ==
  \/ q.fields = {}
  \/ \E f \in q.fields \cap {"dead", "culled", "offlaid"} :
       q[f] < 0 \/ ~IsInteger(q, f)
\* updateBatchSchema applied to the body by the validation middleware: the
\* keys are name, dead, culled, offlaid and notes and no other, at least one
\* of them is present, the counters are integers >= 0
UB_SchemaRejects(q) ==
  \/ q.fields = {}
  \/ ~(q.fields \subseteq {"name", "dead", "culled", "offlaid", "notes"})
  \/ \E f \in q.fields \cap {"dead", "culled", "offlaid"} :
       q[f] < 0 \/ ~IsInteger(q, f)

\* the request arrives: the body is validated against updateBatchSchema
\* ("Validation failed"), then the handler runs; its validation read is made
\* only when a counter is in the body
UB_Start(r, users, batchIds, bodies) ==
  \E u \in users, b \in batchIds, d \in bodies :
    LET q == MkReq("updateBatch", u, b, "", "", 0, 0, d) IN
    /\ Receive(r, q)
    /\ IF UB_SchemaRejects(q) THEN Finish(r, Response(400, "ValidationFailed"))
       ELSE IF u = NoFarm THEN Finish(r, Response(400, "NoFarm"))
       ELSE IF UB_TrackingProvided(q) THEN Begin(r, "ubFindOne")
       ELSE Begin(r, "ubFindOneAndUpdate")
    /\ UNCHANGED store

\* await Batch.findOne({ id, farmId }), then the two checks of the counters
UB_FindOne(r) ==
  /\ pc[r] = "ubFindOne"
  /\ LET batch == FindBatch(req[r].batchId, req[r].farmId) IN
     IF IsNull(batch) THEN
       /\ Finish(r, Response(404, "NotFound"))
       /\ UNCHANGED loc
     ELSE IF UB_ExceedsOriginal(Val(batch), req[r]) THEN
       /\ Finish(r, Response(400, "ConstraintViolation"))
       /\ UNCHANGED loc
     ELSE IF UB_Negative(Val(batch), req[r]) THEN
       /\ Finish(r, Response(400, "InvalidInput"))
       /\ UNCHANGED loc
     ELSE
       /\ Goto(r, "ubFindOneAndUpdate")
       /\ loc' = [loc EXCEPT ![r].batch = batch]
  /\ UNCHANGED <<store, req, calls>>

\* await Batch.findOneAndUpdate({ id, farmId }, updates, { new: true })
UB_FindOneAndUpdate(r) ==
  /\ pc[r] = "ubFindOneAndUpdate"
  /\ LET batch == FindBatch(req[r].batchId, req[r].farmId) IN
     IF IsNull(batch) THEN
       /\ Finish(r, Response(404, "NotFound"))
       /\ UNCHANGED batches
     ELSE
       /\ batches' = [batches EXCEPT ![req[r].batchId] = UB_Updated(@, req[r])]
       /\ Finish(r, ResponseWith(200, "none", UB_Updated(Val(batch), req[r])))
  /\ UNCHANGED <<houses, allocations, history, req, loc, calls>>

(***************************************************************************)
(* deleteBatch                                                             *)
(***************************************************************************)
\* the request arrives
DB_Start(r, users, batchIds) ==
  \E u \in users, b \in batchIds :
    /\ Receive(r, MkReq("deleteBatch", u, b, "", "", 0, 0, NoDelta))
    /\ IF u = NoFarm THEN Finish(r, Response(400, "NoFarm"))
       ELSE Begin(r, "dbFindOneAndDelete")
    /\ UNCHANGED store

\* the batches left by findOneAndDelete of one of them
DB_Deleted(batchId) ==
  [b \in DOMAIN batches \ {batchId} |-> batches[b]]

\* await Batch.findOneAndDelete({ id, farmId }): the batch document is
\* removed; no allocation and no history entry is touched
DB_FindOneAndDelete(r) ==
  /\ pc[r] = "dbFindOneAndDelete"
  /\ IF IsNull(FindBatch(req[r].batchId, req[r].farmId)) THEN
       /\ Finish(r, Response(404, "NotFound"))
       /\ UNCHANGED batches
     ELSE
       /\ batches' = DB_Deleted(req[r].batchId)
       /\ Finish(r, Response(200, "none"))
  /\ UNCHANGED <<houses, allocations, history, req, loc, calls>>

(***************************************************************************)
(* A storage call that rejects: the handler's catch block answers 500.     *)
(***************************************************************************)
AwaitLabels ==
  {"ubcFindOne", "ubcFindOneAndUpdate", "ubcSaveHistory",
   "cbaFindBatch", "cbaGetAllocatedCount", "cbaFindHouse", "cbaFindExisting",
   "cbaFindHouseAllocations", "cbaSave",
   "tbFindBatch", "tbFindFrom", "tbFindToHouse", "tbFindTo", "tbSaveFrom", "tbSaveTo",
   "ubaFindAllocation", "ubaFindBatch", "ubaFindHouse", "ubaSave",
   "ubFindOne", "ubFindOneAndUpdate", "dbFindOneAndDelete",
   "gbaFindBatch", "gbaGetAllocatedCount", "gbaGetUnallocatedCount",
   "gbhFindBatch", "gbhFind", "galFindBatch", "galFind", "ghaFindHouse", "ghaFind"}

StorageError(r) ==
  /\ pc[r] \in AwaitLabels
  /\ Finish(r, Response(500, "StorageError"))
  /\ UNCHANGED <<store, req, loc, calls>>

(***************************************************************************)
(* Specifications.                                                         *)
(***************************************************************************)
\* request bodies of updateBirdCounts used by the specifications
Delta(fields, d, c, o) ==
  [NoDelta EXCEPT !.fields = fields, !.dead = d, !.culled = c, !.offlaid = o]

\* a body in which the counters in `fractional` are half past the given
\* integers
Fractional(fields, fractional, d, c, o) ==
  [Delta(fields, d, c, o) EXCEPT !.fractional = fractional]

\* a body that also carries the fields originalCount and farmId of a batch
\* document
WithOwnerFields(fields, d, original, farm) ==
  [Delta(fields, d, 0, 0) EXCEPT !.originalCount = original, !.newFarmId = farm]

CountDeltas ==
  { Delta({"dead"}, 1, 0, 0),
    Delta({"dead"}, 2, 0, 0),
    Delta({"culled", "offlaid"}, 0, 1, 1),
    Delta({"offlaid"}, 0, 0, 2),
    Delta({"dead", "culled"}, 0, 1, 0),
    Delta({"culled"}, 0, -1, 0),
    Fractional({"dead"}, {"dead"}, 1, 0, 0),
    NoDelta }

\* concurrent updateBirdCounts requests
NextCounts ==
  \E r \in Reqs :
    \/ Fresh(r) /\ UBC_Start(r, {"f1", NoFarm}, {"b1", "b3"}, CountDeltas)
    \/ UBC_FindOne(r)
    \/ UBC_FindOneAndUpdate(r)
    \/ UBC_SaveHistory(r)
    \/ StorageError(r)

SpecCounts == Init /\ [][NextCounts]_vars

\* updateBirdCounts calls one after the other
NextCountsSeq ==
  \E r \in Reqs :
    \/ Serial(r) /\ UBC_Start(r, {"f1", NoFarm}, {"b1", "b3", "b9"}, CountDeltas)
    \/ UBC_FindOne(r)
    \/ UBC_FindOneAndUpdate(r)
    \/ UBC_SaveHistory(r)
    \/ StorageError(r)

SpecCountsSeq == Init /\ [][NextCountsSeq]_vars

Quantities == 1..MaxQuantity

\* createBatchAllocation and transferBirds calls one after the other
NextPlaceSeq ==
  \E r \in Reqs :
    \/ Serial(r) /\ CBA_Start(r, {"f1"}, {"b1", "b2"}, {"h1", "h2"}, Quantities)
    \/ Serial(r) /\ TB_Start(r, {"f1"}, {"b1", "b2"}, {"h1", "h2"}, {"h1", "h2"}, Quantities)
    \/ CBA_FindBatch(r) \/ CBA_GetAllocatedCount(r) \/ CBA_FindHouse(r)
    \/ CBA_FindExisting(r) \/ CBA_FindHouseAllocations(r) \/ CBA_Save(r)
    \/ TB_FindBatch(r) \/ TB_FindFrom(r) \/ TB_FindToHouse(r) \/ TB_FindTo(r)
    \/ TB_SaveFrom(r) \/ TB_SaveTo(r)
    \/ StorageError(r)

SpecPlaceSeq == Init /\ [][NextPlaceSeq]_vars

\* createBatchAllocation, transferBirds and updateBatchAllocation calls one
\* after the other
NextAllocSeq ==
  \E r \in Reqs :
    \/ Serial(r) /\ CBA_Start(r, {"f1"}, {"b1", "b2"}, {"h1", "h2"}, Quantities)
    \/ Serial(r) /\ TB_Start(r, {"f1"}, {"b1", "b2"}, {"h1", "h2"}, {"h1", "h2"}, Quantities)
    \/ Serial(r) /\ UBA_Start(r, {"f1"}, 1..2, Quantities)
    \/ CBA_FindBatch(r) \/ CBA_GetAllocatedCount(r) \/ CBA_FindHouse(r)
    \/ CBA_FindExisting(r) \/ CBA_FindHouseAllocations(r) \/ CBA_Save(r)
    \/ TB_FindBatch(r) \/ TB_FindFrom(r) \/ TB_FindToHouse(r) \/ TB_FindTo(r)
    \/ TB_SaveFrom(r) \/ TB_SaveTo(r)
    \/ UBA_FindAllocation(r) \/ UBA_FindBatch(r) \/ UBA_FindHouse(r) \/ UBA_Save(r)
    \/ StorageError(r)

SpecAllocSeq == Init /\ [][NextAllocSeq]_vars

\* concurrent createBatchAllocation requests
NextAllocate ==
  \E r \in Reqs :
    \/ Fresh(r) /\ CBA_Start(r, {"f1"}, {"b1", "b2"}, {"h1", "h2"}, Quantities)
    \/ CBA_FindBatch(r) \/ CBA_GetAllocatedCount(r) \/ CBA_FindHouse(r)
    \/ CBA_FindExisting(r) \/ CBA_FindHouseAllocations(r) \/ CBA_Save(r)
    \/ StorageError(r)

SpecAllocate == Init /\ [][NextAllocate]_vars

\* every ledger handler, called one after the other by users of the two
\* farms, with a storage that does not fail
NextTenants ==
  \E r \in Reqs :
    \/ Serial(r) /\ UBC_Start(r, {"f1"}, {"b1", "b3"}, {Delta({"dead"}, 1, 0, 0)})
    \/ Serial(r) /\ CBA_Start(r, {"f1", "f2"}, {"b1", "b3"}, {"h1", "h3"}, {1})
    \/ Serial(r) /\ TB_Start(r, {"f1"}, {"b1", "b3"}, {"h1", "h3"}, {"h1", "h3"}, {1})
    \/ Serial(r) /\ UBA_Start(r, {"f1"}, 1..2, {1})
    \/ Serial(r) /\ GBA_Start(r, {"f1"}, {"b1", "b3"})
    \/ Serial(r) /\ GBH_Start(r, {"f1"}, {"b1", "b3"})
    \/ Serial(r) /\ GAL_Start(r, {"f1"}, {"b1", "b3"})
    \/ Serial(r) /\ GHA_Start(r, {"f1"}, {"h1", "h3"})
    \/ UBC_FindOne(r) \/ UBC_FindOneAndUpdate(r) \/ UBC_SaveHistory(r)
    \/ CBA_FindBatch(r) \/ CBA_GetAllocatedCount(r) \/ CBA_FindHouse(r)
    \/ CBA_FindExisting(r) \/ CBA_FindHouseAllocations(r) \/ CBA_Save(r)
    \/ TB_FindBatch(r) \/ TB_FindFrom(r) \/ TB_FindToHouse(r) \/ TB_FindTo(r)
    \/ TB_SaveFrom(r) \/ TB_SaveTo(r)
    \/ UBA_FindAllocation(r) \/ UBA_FindBatch(r) \/ UBA_FindHouse(r) \/ UBA_Save(r)
    \/ GBA_FindBatch(r) \/ GBA_GetAllocatedCount(r) \/ GBA_GetUnallocatedCount(r)
    \/ GBH_FindBatch(r) \/ GBH_Find(r)
    \/ GAL_FindBatch(r) \/ GAL_Find(r)
    \/ GHA_FindHouse(r) \/ GHA_Find(r)

SpecTenants == Init /\ [][NextTenants]_vars

\* every handler, requests in flight at the same time
Next ==
  \E r \in Reqs :
    \/ Fresh(r) /\ UBC_Start(r, {"f1"}, {"b1"}, CountDeltas)
    \/ Fresh(r) /\ CBA_Start(r, {"f1"}, {"b1"}, {"h1", "h2"}, Quantities)
    \/ Fresh(r) /\ TB_Start(r, {"f1"}, {"b1"}, {"h1", "h2"}, {"h1", "h2"}, Quantities)
    \/ Fresh(r) /\ UBA_Start(r, {"f1"}, 1..2, Quantities)
    \/ Fresh(r) /\ GBA_Start(r, {"f1"}, {"b1"})
    \/ Fresh(r) /\ GBH_Start(r, {"f1"}, {"b1"})
    \/ Fresh(r) /\ GAL_Start(r, {"f1"}, {"b1"})
    \/ Fresh(r) /\ GHA_Start(r, {"f1"}, {"h1"})
    \/ UBC_FindOne(r) \/ UBC_FindOneAndUpdate(r) \/ UBC_SaveHistory(r)
    \/ CBA_FindBatch(r) \/ CBA_GetAllocatedCount(r) \/ CBA_FindHouse(r)
    \/ CBA_FindExisting(r) \/ CBA_FindHouseAllocations(r) \/ CBA_Save(r)
    \/ TB_FindBatch(r) \/ TB_FindFrom(r) \/ TB_FindToHouse(r) \/ TB_FindTo(r)
    \/ TB_SaveFrom(r) \/ TB_SaveTo(r)
    \/ UBA_FindAllocation(r) \/ UBA_FindBatch(r) \/ UBA_FindHouse(r) \/ UBA_Save(r)
    \/ GBA_FindBatch(r) \/ GBA_GetAllocatedCount(r) \/ GBA_GetUnallocatedCount(r)
    \/ GBH_FindBatch(r) \/ GBH_Find(r)
    \/ GAL_FindBatch(r) \/ GAL_Find(r)
    \/ GHA_FindHouse(r) \/ GHA_Find(r)
    \/ StorageError(r)

Spec == Init /\ [][Next]_vars

\* createBatchAllocation calls one after the other, into a house of capacity
\* 2 and a house whose declared capacity is 0
NextCapacity ==
  \E r \in Reqs :
    \/ Serial(r) /\ CBA_Start(r, {"f1"}, {"b1", "b2"}, {"h1", "h4"}, Quantities)
    \/ CBA_FindBatch(r) \/ CBA_GetAllocatedCount(r) \/ CBA_FindHouse(r)
    \/ CBA_FindExisting(r) \/ CBA_FindHouseAllocations(r) \/ CBA_Save(r)
    \/ StorageError(r)

SpecCapacity == Init /\ [][NextCapacity]_vars

\* createBatchAllocation and transferBirds calls one after the other, with a
\* storage that does not fail
NextPlaceNoFault ==
  \E r \in Reqs :
    \/ Serial(r) /\ CBA_Start(r, {"f1"}, {"b1", "b2"}, {"h1", "h2"}, Quantities)
    \/ Serial(r) /\ TB_Start(r, {"f1"}, {"b1", "b2"}, {"h1", "h2"}, {"h1", "h2"}, Quantities)
    \/ CBA_FindBatch(r) \/ CBA_GetAllocatedCount(r) \/ CBA_FindHouse(r)
    \/ CBA_FindExisting(r) \/ CBA_FindHouseAllocations(r) \/ CBA_Save(r)
    \/ TB_FindBatch(r) \/ TB_FindFrom(r) \/ TB_FindToHouse(r) \/ TB_FindTo(r)
    \/ TB_SaveFrom(r) \/ TB_SaveTo(r)

SpecPlaceNoFault == Init /\ [][NextPlaceNoFault]_vars

\* request bodies of updateBatch used by the specifications: a counter set
\* to an absolute value, a body without counters, and bodies that carry
\* originalCount or farmId
BatchUpdates ==
  { Delta({"dead"}, 0, 0, 0),
    Delta({"culled"}, 0, 1, 0),
    Delta({"name"}, 0, 0, 0),
    WithOwnerFields({"originalCount"}, 0, 1, ""),
    WithOwnerFields({"dead", "originalCount"}, 1, 1, ""),
    WithOwnerFields({"name", "farmId"}, 0, 0, "f2") }

\* the operations on a batch, its allocations and its history, called one
\* after the other by a user of the batch's farm
NextLedgerSeq ==
  \E r \in Reqs :
    \/ Serial(r) /\ UBC_Start(r, {"f1"}, {"b1"}, {Delta({"dead"}, 1, 0, 0)})
    \/ Serial(r) /\ UB_Start(r, {"f1"}, {"b1"}, BatchUpdates)
    \/ Serial(r) /\ DB_Start(r, {"f1"}, {"b1"})
    \/ Serial(r) /\ CBA_Start(r, {"f1"}, {"b1"}, {"h1", "h2"}, Quantities)
    \/ Serial(r) /\ TB_Start(r, {"f1"}, {"b1"}, {"h1"}, {"h2"}, {1})
    \/ Serial(r) /\ UBA_Start(r, {"f1"}, {1}, {1})
    \/ Serial(r) /\ GBH_Start(r, {"f1"}, {"b1"})
    \/ UBC_FindOne(r) \/ UBC_FindOneAndUpdate(r) \/ UBC_SaveHistory(r)
    \/ UB_FindOne(r) \/ UB_FindOneAndUpdate(r)
    \/ DB_FindOneAndDelete(r)
    \/ CBA_FindBatch(r) \/ CBA_GetAllocatedCount(r) \/ CBA_FindHouse(r)
    \/ CBA_FindExisting(r) \/ CBA_FindHouseAllocations(r) \/ CBA_Save(r)
    \/ TB_FindBatch(r) \/ TB_FindFrom(r) \/ TB_FindToHouse(r) \/ TB_FindTo(r)
    \/ TB_SaveFrom(r) \/ TB_SaveTo(r)
    \/ UBA_FindAllocation(r) \/ UBA_FindBatch(r) \/ UBA_FindHouse(r) \/ UBA_Save(r)
    \/ GBH_FindBatch(r) \/ GBH_Find(r)
    \/ StorageError(r)

SpecLedgerSeq == Init /\ [][NextLedgerSeq]_vars

\* concurrent updateBirdCounts requests, with a storage that
\* does not fail
NextCountsNoFault ==
  \E r \in Reqs :
    \/ Fresh(r) /\ UBC_Start(r, {"f1"}, {"b1", "b2"}, CountDeltas)
    \/ UBC_FindOne(r)
    \/ UBC_FindOneAndUpdate(r)
    \/ UBC_SaveHistory(r)

SpecCountsNoFault == Init /\ [][NextCountsNoFault]_vars

\* getBatchAvailability requests concurrent with createBatchAllocation
\* requests, with a storage that does not fail
NextAvailability ==
  \E r \in Reqs :
    \/ Fresh(r) /\ GBA_Start(r, {"f1"}, {"b1", "b2"})
    \/ Fresh(r) /\ CBA_Start(r, {"f1"}, {"b1", "b2"}, {"h1", "h2"}, Quantities)
    \/ GBA_FindBatch(r) \/ GBA_GetAllocatedCount(r) \/ GBA_GetUnallocatedCount(r)
    \/ CBA_FindBatch(r) \/ CBA_GetAllocatedCount(r) \/ CBA_FindHouse(r)
    \/ CBA_FindExisting(r) \/ CBA_FindHouseAllocations(r) \/ CBA_Save(r)

SpecAvailability == Init /\ [][NextAvailability]_vars

\* createBatchAllocation calls one after the other that also name a batch
\* and a house that do not exist, with a storage that does not fail
NextCheckOrder ==
  \E r \in Reqs :
    \/ Serial(r) /\ CBA_Start(r, {"f1"}, {"b1", "b2", "b9"}, {"h1", "h9"}, Quantities)
    \/ CBA_FindBatch(r) \/ CBA_GetAllocatedCount(r) \/ CBA_FindHouse(r)
    \/ CBA_FindExisting(r) \/ CBA_FindHouseAllocations(r) \/ CBA_Save(r)

SpecCheckOrder == Init /\ [][NextCheckOrder]_vars

\* request quantities that are not all positive
AnyQuantities == {0 - 1, 0} \cup Quantities

\* createBatchAllocation, transferBirds and updateBatchAllocation calls one
\* after the other with any quantity, with a storage that does not fail
NextAnyQuantity ==
  \E r \in Reqs :
    \/ Serial(r) /\ CBA_Start(r, {"f1"}, {"b1"}, {"h1", "h2"}, AnyQuantities)
    \/ Serial(r) /\ TB_Start(r, {"f1"}, {"b1"}, {"h1", "h2"}, {"h1", "h2"}, AnyQuantities)
    \/ Serial(r) /\ UBA_Start(r, {"f1"}, {1}, AnyQuantities)
    \/ CBA_FindBatch(r) \/ CBA_GetAllocatedCount(r) \/ CBA_FindHouse(r)
    \/ CBA_FindExisting(r) \/ CBA_FindHouseAllocations(r) \/ CBA_Save(r)
    \/ TB_FindBatch(r) \/ TB_FindFrom(r) \/ TB_FindToHouse(r) \/ TB_FindTo(r)
    \/ TB_SaveFrom(r) \/ TB_SaveTo(r)
    \/ UBA_FindAllocation(r) \/ UBA_FindBatch(r) \/ UBA_FindHouse(r) \/ UBA_Save(r)

SpecAnyQuantity == Init /\ [][NextAnyQuantity]_vars

\* clients that call at any time: a connection carries one request at a
\* time, the connections are independent of each other
Pooled(r) ==
  /\ pc[r] \in {"idle", "done"}
  /\ calls < MaxCalls

\* createBatchAllocation and transferBirds calls of batch b1 that overlap
\* in any way, also on a record that exists, with a storage that does not
\* fail
NextTopUp ==
  \E r \in Reqs :
    \/ Pooled(r) /\ CBA_Start(r, {"f1"}, {"b1"}, {"h1", "h2"}, {1})
    \/ Pooled(r) /\ TB_Start(r, {"f1"}, {"b1"}, {"h1"}, {"h2"}, {1})
    \/ CBA_FindBatch(r) \/ CBA_GetAllocatedCount(r) \/ CBA_FindHouse(r)
    \/ CBA_FindExisting(r) \/ CBA_FindHouseAllocations(r) \/ CBA_Save(r)
    \/ TB_FindBatch(r) \/ TB_FindFrom(r) \/ TB_FindToHouse(r) \/ TB_FindTo(r)
    \/ TB_SaveFrom(r) \/ TB_SaveTo(r)

SpecTopUp == Init /\ [][NextTopUp]_vars

(***************************************************************************)
(* Properties of the loss counters.                                        *)
(***************************************************************************)
lossTotal(b) == b.dead + b.culled + b.offlaid

\* total of the deltas a request asks for
requestedAddition(q) == OrZero(q, "dead") + OrZero(q, "culled") + OrZero(q, "offlaid")

WithinOriginal == \A b \in DOMAIN batches : lossTotal(batches[b]) <= batches[b].originalCount

\* an updateBirdCounts call on a batch of the caller's farm that has not
\* yet written, whose deltas would push the stored total above originalCount
WouldExceed(r) ==
  /\ req[r].op = "updateBirdCounts"
  /\ pc[r] \in {"ubcFindOne", "ubcFindOneAndUpdate"}
  /\ ~IsNull(FindBatch(req[r].batchId, req[r].farmId))
  /\ lossTotal(batches[req[r].batchId]) + requestedAddition(req[r])
       > batches[req[r].batchId].originalCount

RejectedWithoutEffect ==
  \A r \in Reqs :
    WouldExceed(r) =>
      /\ batches' = batches
      /\ history' = history
      /\ pc'[r] \in {pc[r], "done"}
      /\ pc'[r] = "done" => res'[r].error \in {"ConstraintViolation", "StorageError"}

\* C1: with updateBirdCounts calls made one after the other,
\* dead + culled + offlaid <= originalCount holds for every batch in every
\* state, and a call whose deltas would push the total above originalCount
\* is rejected and changes neither the counters nor the audit trail.
C1_SequentialLossBound == []WithinOriginal /\ [][RejectedWithoutEffect]_vars

\* C1 witness: after an accepted call, a call that would exceed
\* originalCount has been rejected
C1_Witness ==
  /\ history # <<>>
  /\ \E r \in Reqs :
       /\ pc[r] = "done"
       /\ req[r].op = "updateBirdCounts"
       /\ res[r].error = "ConstraintViolation"
       /\ lossTotal(batches[req[r].batchId]) > 0

\* C2: in every interleaving of concurrent updateBirdCounts requests,
\* currentCount >= 0 (dead + culled + offlaid <= originalCount) holds for
\* every batch in every reachable state.
C2_CurrentCountNonNegative == \A b \in DOMAIN batches : currentCount(batches[b]) >= 0

\* the requests answered 200 by updateBirdCounts
Succeeded(r) ==
  /\ pc[r] = "done"
  /\ req[r].op = "updateBirdCounts"
  /\ res[r].status = 200

RECURSIVE sumOfDeltas(_, _, _)
\* sum of the deltas of counter f asked for by the successful calls of S on
\* batch b
sumOfDeltas(S, b, f) ==
  IF S = {} THEN 0
  ELSE LET r == CHOOSE x \in S : TRUE IN
       (IF Succeeded(r) /\ req[r].batchId = b THEN OrZero(req[r], f) ELSE 0)
         + sumOfDeltas(S \ {r}, b, f)

\* every call made so far has been answered, none with a server error
AllAnswered == \A r \in Reqs : pc[r] \in {"idle", "done"} /\ res[r].status # 500

\* C3: no lost updates.  Once all the updateBirdCounts calls made, in any
\* interleaving, have been answered and none failed with a server error,
\* each of dead, culled and offlaid of every batch equals its initial value
\* (zero) plus the sum of the deltas of the successful calls on that batch,
\* and currentCount is originalCount minus that total.
C3_NoLostUpdates ==
  AllAnswered =>
    \A b \in DOMAIN batches :
      /\ batches[b].dead = sumOfDeltas(Reqs, b, "dead")
      /\ batches[b].culled = sumOfDeltas(Reqs, b, "culled")
      /\ batches[b].offlaid = sumOfDeltas(Reqs, b, "offlaid")
      /\ currentCount(batches[b]) =
           batches[b].originalCount
             - (sumOfDeltas(Reqs, b, "dead") + sumOfDeltas(Reqs, b, "culled")
                  + sumOfDeltas(Reqs, b, "offlaid"))

\* C3 witness: all the calls were on one batch, overlapped (two of them read
\* the same counters before incrementing) and succeeded with non-zero deltas
C3_Witness ==
  /\ \A r \in Reqs : Succeeded(r) /\ req[r].batchId = "b1" /\ requestedAddition(req[r]) > 0
  /\ \E i, j \in DOMAIN history : i # j /\ history[i].beforeState = history[j].beforeState

\* C8: every successful updateBirdCounts call, also when others run
\* concurrently, has created exactly one BirdCountHistory entry, whose
\* beforeState and afterState are the counters right before and right after
\* its increment: afterState.x = beforeState.x + delta.x for dead, culled and
\* offlaid.
C8_AuditSnapshots ==
  /\ Len(history) = Cardinality({r \in Reqs : Succeeded(r)})
  /\ \A i \in DOMAIN history :
       /\ history[i].afterState.dead = history[i].beforeState.dead + history[i].dead
       /\ history[i].afterState.culled = history[i].beforeState.culled + history[i].culled
       /\ history[i].afterState.offlaid = history[i].beforeState.offlaid + history[i].offlaid

(***************************************************************************)
(* Properties of the allocations.                                          *)
(***************************************************************************)
RECURSIVE totalQuantity(_)
\* sum of the stored quantities of the allocations with the ids in S
totalQuantity(S) ==
  IF S = {} THEN 0
  ELSE LET i == CHOOSE x \in S : TRUE IN
       allocations[i].quantity + totalQuantity(S \ {i})

\* total stored quantity of the allocations of batch b / into house h
allocatedOfBatch(b) == totalQuantity({i \in DOMAIN allocations : allocations[i].batchId = b})
occupancyOfHouse(h) == totalQuantity({i \in DOMAIN allocations : allocations[i].houseId = h})

\* no call is in flight
Quiescent == \A r \in Reqs : pc[r] \in {"idle", "done"}

\* C4: with createBatchAllocation and transferBirds calls made one after
\* the other, after every call the quantities of a batch's allocations sum
\* to at most the batch's currentCount.
C4_AllocatedWithinCurrentCount ==
  Quiescent =>
    \A b \in DOMAIN batches : allocatedOfBatch(b) <= currentCount(batches[b])

\* C5: concurrent createBatchAllocation calls into different houses never
\* over-allocate a batch: once they have completed, in any interleaving,
\* the quantities of the batch's allocations sum to at most its
\* currentCount.
C5_NoConcurrentOverAllocation ==
  /\ \A r \in Reqs : pc[r] = "done"
  /\ \A r, t \in Reqs : r # t => req[r].houseId # req[t].houseId
  => \A b \in DOMAIN batches : allocatedOfBatch(b) <= currentCount(batches[b])

\* C6: after every createBatchAllocation, transferBirds and
\* updateBatchAllocation call, the quantities allocated into a house with a
\* declared capacity, across all batches, sum to at most that capacity.
C6_HouseWithinCapacity ==
  Quiescent =>
    \A h \in DOMAIN houses :
      houses[h].hasCapacity => occupancyOfHouse(h) <= houses[h].capacity

\* the step in which the credit of a transfer fails after its debit was
\* saved
CreditFails(r) ==
  /\ pc[r] = "tbSaveTo"
  /\ pc'[r] = "done"
  /\ res'[r].error = "StorageError"

\* C7: when the credit step of transferBirds fails after the debit of the
\* source allocation was saved, the source allocation's stored quantity is
\* back at its value before the transfer (the debited value plus the
\* transferred quantity).
C7_FailedCreditRestoresSource ==
  [][\A r \in Reqs :
       CreditFails(r) =>
         allocations'[Val(loc[r].fromAllocation).id].quantity
           = Val(loc[r].fromAllocation).quantity + req[r].quantity]_vars

\* the step in which createBatchAllocation compares the requested quantity
\* with the unallocated count
UnallocatedCheck(r) ==
  /\ pc[r] = "cbaGetAllocatedCount"
  /\ pc'[r] # pc[r]
  /\ res'[r].error # "StorageError"

unallocatedOfBatch(b) == currentCount(batches[b]) - allocatedOfBatch(b)

\* C10: a createBatchAllocation call on a batch of the caller's farm is
\* rejected as InsufficientUnallocated exactly when quantity > currentCount
\* minus the sum of the batch's allocation quantities; the rejection reports
\* that difference as available and creates or changes no allocation, and
\* no other step answers InsufficientUnallocated.
C10_InsufficientUnallocatedExactly ==
  [][\A r \in Reqs :
       /\ UnallocatedCheck(r) =>
            /\ res'[r].error = "InsufficientUnallocated"
                 <=> req[r].quantity > unallocatedOfBatch(req[r].batchId)
            /\ res'[r].error = "InsufficientUnallocated" =>
                 /\ pc'[r] = "done"
                 /\ res'[r].status = 400
                 /\ Val(res'[r].body).unallocatedCount = unallocatedOfBatch(req[r].batchId)
                 /\ Val(res'[r].body).requestedQuantity = req[r].quantity
                 /\ allocations' = allocations
       /\ res'[r].error = "InsufficientUnallocated" /\ pc[r] # "done" =>
            UnallocatedCheck(r)
       /\ pc[r] = "done" /\ pc'[r] = "done" /\ res[r].error = "InsufficientUnallocated" =>
            allocations' = allocations]_vars

\* C10 witness: a request that fits the batch's currentCount but not what
\* is left unallocated was rejected, with the difference reported
C10_Witness ==
  \E r \in Reqs :
    /\ pc[r] = "done"
    /\ req[r].op = "createBatchAllocation"
    /\ res[r].error = "InsufficientUnallocated"
    /\ allocatedOfBatch(req[r].batchId) > 0
    /\ req[r].quantity <= currentCount(batches[req[r].batchId])
    /\ Val(res[r].body).unallocatedCount = unallocatedOfBatch(req[r].batchId)
    /\ Val(res[r].body).unallocatedCount < req[r].quantity

(***************************************************************************)
(* Tenant isolation.                                                       *)
(***************************************************************************)
ForeignBatch(id, farm) == id \in DOMAIN batches /\ batches[id].farmId # farm
ForeignHouse(id, farm) == id \in DOMAIN houses /\ houses[id].farmId # farm
ForeignAllocation(id, farm) ==
  /\ id \in DOMAIN allocations
  /\ \/ ForeignBatch(allocations[id].batchId, farm)
     \/ ForeignHouse(allocations[id].houseId, farm)

\* request r was made by a user of a farm on a batch, house or allocation of
\* another farm
CrossTenant(r) ==
  /\ req[r].op # "none"
  /\ req[r].farmId # NoFarm
  /\ \/ ForeignBatch(req[r].batchId, req[r].farmId)
     \/ ForeignHouse(req[r].houseId, req[r].farmId)
     \/ ForeignHouse(req[r].toHouseId, req[r].farmId)
     \/ ForeignAllocation(req[r].allocationId, req[r].farmId)

CrossTenantNotFound ==
  \A r \in Reqs : pc[r] = "done" /\ CrossTenant(r) => res[r].status = 404

CrossTenantNoChange ==
  \A r \in Reqs : pc[r] \notin {"idle", "done"} /\ CrossTenant(r) => store' = store

\* C9: every ledger operation invoked by a user of one farm on a batch,
\* house or allocation of another farm is answered 404, and changes no
\* batch, allocation or audit record.
C9_TenantIsolation == []CrossTenantNotFound /\ [][CrossTenantNoChange]_vars

\* C9 witness: a user's updateBatchAllocation on an allocation of another
\* farm's batch has been answered 403
C9_ForbiddenAnswered ==
  \E r \in Reqs :
    /\ pc[r] = "done"
    /\ req[r].op = "updateBatchAllocation"
    /\ CrossTenant(r)
    /\ res[r].status = 403


(***************************************************************************)
(* Capacity check of createBatchAllocation.                                *)
(***************************************************************************)
\* a createBatchAllocation call in flight whose target house declares a
\* capacity that the house's occupancy plus the requested quantity exceeds
CapacityCheckDue(r) ==
  /\ req[r].op = "createBatchAllocation"
  /\ pc[r] \in {"cbaFindBatch", "cbaGetAllocatedCount", "cbaFindHouse",
                "cbaFindExisting", "cbaFindHouseAllocations", "cbaSave"}
  /\ ~IsNull(FindHouse(req[r].houseId, req[r].farmId))
  /\ houses[req[r].houseId].hasCapacity
  /\ occupancyOfHouse(req[r].houseId) + req[r].quantity
       > houses[req[r].houseId].capacity

\* C11: a createBatchAllocation call into a house with a declared capacity
\* (0 included) that occupancy plus quantity would exceed changes no
\* allocation, is never answered 201, and is answered CapacityExceeded once
\* it has reached the capacity checks
C11_CapacityExceededRejected ==
  [][\A r \in Reqs :
       CapacityCheckDue(r) =>
         /\ allocations' = allocations
         /\ pc'[r] = "done" => res'[r].status >= 400
         /\ (pc[r] \in {"cbaFindExisting", "cbaFindHouseAllocations", "cbaSave"}
               /\ pc'[r] = "done")
              => res'[r].error \in {"CapacityExceeded", "StorageError"}]_vars

\* a full house of capacity 2 has refused one more bird of another batch
C11_FullHouseRefused ==
  \E r \in Reqs :
    /\ pc[r] = "done" /\ req[r].op = "createBatchAllocation"
    /\ res[r].error = "CapacityExceeded"
    /\ req[r].houseId = "h1" /\ req[r].quantity = 1
    /\ occupancyOfHouse("h1") = houses["h1"].capacity
    /\ IsNull(FindAllocation(req[r].batchId, "h1"))

(***************************************************************************)
(* The effect of transferBirds.                                            *)
(***************************************************************************)
\* the allocations with the quantity of every (batchId, houseId) record
\* changed by n
Moved(l, batchId, houseId, n) ==
  [i \in DOMAIN l |->
     IF l[i].batchId = batchId /\ l[i].houseId = houseId
     THEN [l[i] EXCEPT !.quantity = @ + n] ELSE l[i]]

\* a transferBirds call between two different houses whose preconditions
\* hold in the store: own batch, source allocation of at least the quantity,
\* own destination house with room for the quantity
TransferPreconditions(r) ==
  /\ req[r].op = "transferBirds"
  /\ req[r].houseId # req[r].toHouseId
  /\ ~IsNull(FindBatch(req[r].batchId, req[r].farmId))
  /\ ~IsNull(FindAllocation(req[r].batchId, req[r].houseId))
  /\ Val(FindAllocation(req[r].batchId, req[r].houseId)).quantity >= req[r].quantity
  /\ ~IsNull(FindHouse(req[r].toHouseId, req[r].farmId))
  /\ houses[req[r].toHouseId].hasCapacity =>
       occupancyOfHouse(req[r].toHouseId) + req[r].quantity
         <= houses[req[r].toHouseId].capacity

TransferEnds(r) ==
  /\ req[r].op = "transferBirds"
  /\ pc[r] \in {"tbFindBatch", "tbFindFrom", "tbFindToHouse", "tbFindTo",
                "tbSaveFrom", "tbSaveTo"}
  /\ pc'[r] = "done"

\* C13: transferBirds is all-or-nothing for its caller: a call is answered
\* with success exactly when both its debit and its credit were persisted,
\* and when it is answered 4xx or 5xx every allocation has the quantity it
\* had before the call (after the debit that is the store with the debit
\* undone), whether the destination allocation existed or was created
C13_TransferAllOrNothing ==
  [][\A r \in Reqs :
       TransferEnds(r) =>
         /\ res'[r].status = 200 => pc[r] = "tbSaveTo"
         /\ (pc[r] = "tbSaveTo" /\ allocations' # allocations)
              => res'[r].status = 200
         /\ res'[r].status >= 400 =>
              allocations' =
                IF pc[r] = "tbSaveTo"
                THEN Moved(allocations, req[r].batchId, req[r].houseId,
                           req[r].quantity)
                ELSE allocations]_vars

\* a transfer into a house that held no birds of the batch has been
\* answered 500 with both its debit and its credit persisted
C13_CreatedThenFailed ==
  \E r \in Reqs :
    /\ pc[r] = "done" /\ req[r].op = "transferBirds"
    /\ req[r].houseId # req[r].toHouseId
    /\ res[r].status = 500 /\ res[r].error = "ReferenceError"
    /\ Val(FindAllocation(req[r].batchId, req[r].toHouseId)).quantity
         = req[r].quantity
    /\ Val(FindAllocation(req[r].batchId, req[r].houseId)).quantity
         = Val(loc[r].fromAllocation).quantity

(***************************************************************************)
(* Monotonicity of the loss counters.                                      *)
(***************************************************************************)
\* C14: along every sequence of operations the counters dead, culled and
\* offlaid of a batch never decrease
C14_CountersNeverDecrease ==
  [][\A b \in DOMAIN batches \cap DOMAIN batches' :
       /\ batches'[b].dead >= batches[b].dead
       /\ batches'[b].culled >= batches[b].culled
       /\ batches'[b].offlaid >= batches[b].offlaid]_vars

\* updateBatch has been answered 200 for a body that sets a counter
C14_CounterSet ==
  \E r \in Reqs :
    /\ pc[r] = "done" /\ req[r].op = "updateBatch"
    /\ res[r].status = 200
    /\ Has(req[r], "culled")
    /\ req[r].batchId \in DOMAIN batches
    /\ batches[req[r].batchId].culled = req[r].culled
    /\ batches[req[r].batchId].dead > 0

(***************************************************************************)
(* The chain and the order of the audit entries.                           *)
(***************************************************************************)
\* the audit entries of a batch in the order of their creation
AuditChain(batchId) == SelectSeq(history, LAMBDA e : e.batchId = batchId)

\* C15: the audit entries of a batch, in the order of their creation, form
\* a chain: the beforeState of the first one is the counters of the batch
\* at its creation, and the afterState of every entry is the beforeState of
\* the next one, in every interleaving of concurrent calls
C15_AuditChainContinuous ==
  \A b \in DOMAIN batches :
    LET chain == AuditChain(b) IN
    /\ chain # <<>> => chain[1].beforeState = CountState(InitBatches[b])
    /\ \A i \in 1..(Len(chain) - 1) :
         chain[i].afterState = chain[i + 1].beforeState

\* two overlapping updateBirdCounts calls on one batch have both been
\* recorded
C15_TwoOverlappingRecorded ==
  /\ \A r \in Reqs : Succeeded(r) /\ req[r].batchId = "b1"
                       /\ requestedAddition(req[r]) > 0
  /\ Len(AuditChain("b1")) = 2
  /\ AuditChain("b1")[1].beforeState = AuditChain("b1")[2].beforeState

\* C16: the order in which the audit entries of a batch were created is the
\* order in which their increments were applied to the batch: the counters
\* only grow, so the total recorded in afterState never goes down along the
\* entries, in every interleaving of concurrent calls
C16_AuditOrderIsApplyOrder ==
  \A b \in DOMAIN batches :
    LET chain == AuditChain(b) IN
    \A i, j \in DOMAIN chain :
      i < j => lossTotal(chain[i].afterState) <= lossTotal(chain[j].afterState)

\* the entry of the increment applied second has been created first
C16_CreatedOutOfOrder ==
  LET chain == AuditChain("b1") IN
  /\ Len(chain) = 2
  /\ \A r \in Reqs : Succeeded(r)
  /\ lossTotal(chain[1].afterState) > lossTotal(chain[2].afterState)
  /\ lossTotal(chain[1].afterState) = lossTotal(batches["b1"])

(***************************************************************************)
(* The audit trail is append-only.                                         *)
(***************************************************************************)
\* C17: no step of any operation (bird-count update, batch update, batch
\* deletion, allocation, transfer, allocation update, history read) changes
\* or removes an audit entry: the entries before the step are the first
\* entries after it
C17_AuditAppendOnly ==
  [][/\ Len(history') >= Len(history)
     /\ SubSeq(history', 1, Len(history)) = history]_vars

\* two bird-count updates of a batch have been recorded, the batch has then
\* been deleted, and both entries are still there
C17_EntriesOutliveBatch ==
  /\ Len(AuditChain("b1")) = 2
  /\ "b1" \notin DOMAIN batches
  /\ \E r \in Reqs : pc[r] = "done" /\ req[r].op = "deleteBatch"
                       /\ res[r].status = 200

(***************************************************************************)
(* Rejections of updateBirdCounts.                                         *)
(***************************************************************************)
\* a body that supplies none of dead, culled, offlaid, or supplies one of
\* them with a negative or a non-integer value
Malformed(q) ==
  \/ q.fields \cap {"dead", "culled", "offlaid"} = {}
  \/ \E f \in q.fields \cap {"dead", "culled", "offlaid"} :
       q[f] < 0 \/ f \in q.fractional

\* an updateBirdCounts request of a user of a farm that is to be rejected:
\* its body is malformed, or its batch is missing or of another farm
ToBeRejected(q) ==
  /\ q.op = "updateBirdCounts" /\ q.farmId # NoFarm
  /\ Malformed(q) \/ IsNull(FindBatch(q.batchId, q.farmId))

\* the responses to the requests that are to be rejected
RejectedAsSpecified ==
  \A r \in Reqs :
    (pc[r] = "done" /\ ToBeRejected(req[r])) =>
      IF Malformed(req[r])
      THEN res[r].status = 400 /\ res[r].error = "InvalidInput"
      ELSE \/ res[r].status = 404 /\ res[r].error = "NotFound"
           \/ res[r].error = "StorageError"

\* no step of a request that is to be rejected changes a batch or the audit
\* trail
RejectionChangesNothing ==
  \A r \in Reqs :
    (pc'[r] # pc[r] /\ ToBeRejected(req'[r])) =>
      batches' = batches /\ history' = history

\* C18: updateBirdCounts answers InvalidInput when none of dead, culled,
\* offlaid is supplied or a supplied delta is negative or not an integer,
\* and NotFound when the batch is missing or of another farm; in all these
\* cases the counters are unchanged and no audit entry is created
C18_RejectionsOfUpdateBirdCounts ==
  []RejectedAsSpecified /\ [][RejectionChangesNothing]_vars

\* after a recorded update of batch b1, a delta of one and a half has been
\* rejected
C18_NonIntegerRejected ==
  \E r \in Reqs :
    /\ pc[r] = "done" /\ req[r].op = "updateBirdCounts"
    /\ req[r].batchId = "b1" /\ req[r].farmId = "f1"
    /\ "dead" \in req[r].fractional /\ req[r].dead = 1
    /\ res[r].error = "InvalidInput"
    /\ lossTotal(batches["b1"]) = 1 /\ Len(history) = 1

(***************************************************************************)
(* getBatchAvailability.                                                   *)
(***************************************************************************)
\* the numbers of every answered getBatchAvailability call agree
AvailabilityConsistent ==
  \A r \in Reqs :
    (pc[r] = "done" /\ req[r].op = "getBatchAvailability" /\ res[r].status = 200)
      => LET body == Val(res[r].body) IN
         body.unallocatedCount = body.currentCount - body.allocatedCount

\* no step of a getBatchAvailability call changes the store
AvailabilityReadOnly ==
  \A r \in Reqs :
    (req'[r].op = "getBatchAvailability" /\ pc'[r] # pc[r]) => store' = store

\* C19: getBatchAvailability changes no state and answers with numbers that
\* agree with each other, unallocatedCount = currentCount - allocatedCount,
\* also when allocations change while it runs
C19_AvailabilityConsistent ==
  []AvailabilityConsistent /\ [][AvailabilityReadOnly]_vars

\* getBatchAvailability has answered with the numbers of one moment
C19_Answered ==
  \E r \in Reqs :
    /\ pc[r] = "done" /\ req[r].op = "getBatchAvailability"
    /\ res[r].status = 200
    /\ Val(res[r].body).allocatedCount = allocatedOfBatch(req[r].batchId)
    /\ Val(res[r].body).allocatedCount > 0
    /\ Val(res[r].body).unallocatedCount
         = Val(res[r].body).currentCount - Val(res[r].body).allocatedCount

(***************************************************************************)
(* Deletion of a batch and its allocations.                                *)
(***************************************************************************)
\* every allocation refers to a batch that exists
AllocationsReferToBatches ==
  \A i \in DOMAIN allocations : allocations[i].batchId \in DOMAIN batches

\* no step removes a batch that an allocation refers to
ReferencedBatchKept ==
  \A i \in DOMAIN allocations : allocations[i].batchId \in DOMAIN batches'

\* C20: a batch is never deleted while an allocation refers to it:
\* deleteBatch on such a batch leaves it in place, and the batchId of every
\* allocation is the id of an existing batch
C20_NoDeletionWhileAllocated ==
  []AllocationsReferToBatches /\ [][ReferencedBatchKept]_vars

\* deleteBatch has removed a batch that has no allocation
C20_UnallocatedBatchDeleted ==
  \E r \in Reqs :
    /\ pc[r] = "done" /\ req[r].op = "deleteBatch" /\ res[r].status = 200
    /\ req[r].batchId \notin DOMAIN batches
    /\ allocations = <<>>

TransferOverCapacity(r) ==
  /\ req[r].op = "transferBirds"
  /\ req[r].houseId # req[r].toHouseId
  /\ pc[r] \in {"tbFindBatch", "tbFindFrom", "tbFindToHouse", "tbFindTo",
                "tbSaveFrom", "tbSaveTo"}
  /\ ~IsNull(FindHouse(req[r].toHouseId, req[r].farmId))
  /\ houses[req[r].toHouseId].hasCapacity
  /\ occupancyOfHouse(req[r].toHouseId) + req[r].quantity
       > houses[req[r].toHouseId].capacity

\* C22: a transferBirds call into a capacity-bound house whose occupancy
\* across all batches plus the transferred quantity exceeds the capacity
\* changes no allocation, is never answered with success, and is answered
\* CapacityExceeded once it has reached the capacity check
C22_TransferCapacityAllBatches ==
  [][\A r \in Reqs :
       TransferOverCapacity(r) =>
         /\ allocations' = allocations
         /\ pc'[r] = "done" => res'[r].status >= 400
         /\ (pc[r] \in {"tbFindTo", "tbSaveFrom", "tbSaveTo"} /\ pc'[r] = "done")
              => res'[r].error = "CapacityExceeded"]_vars

\* a transfer has been refused because the transferred batch's own birds in
\* the destination house plus the quantity exceed the capacity
C22_OwnQuantityRefused ==
  \E r \in Reqs :
    /\ pc[r] = "done" /\ req[r].op = "transferBirds"
    /\ res[r].error = "CapacityExceeded"
    /\ req[r].houseId # req[r].toHouseId
    /\ occupancyOfHouse(req[r].toHouseId)
         = Val(FindAllocation(req[r].batchId, req[r].toHouseId)).quantity

\* an updateBatchAllocation call in flight on an allocation of the caller's
\* farm whose house declares a capacity which the quantities of the other
\* allocations in the house plus the new quantity exceed
UpdateOverCapacity(r) ==
  /\ req[r].op = "updateBatchAllocation"
  /\ pc[r] \in {"ubaFindAllocation", "ubaFindBatch", "ubaFindHouse", "ubaSave"}
  /\ ~IsNull(FindAllocationById(req[r].allocationId))
  /\ LET allocation == Val(FindAllocationById(req[r].allocationId)) IN
     /\ ~IsNull(FindBatch(allocation.batchId, req[r].farmId))
     /\ ~IsNull(FindHouse(allocation.houseId, req[r].farmId))
     /\ houses[allocation.houseId].hasCapacity
     /\ (occupancyOfHouse(allocation.houseId) - allocation.quantity)
          + req[r].quantity > houses[allocation.houseId].capacity

\* C23: an updateBatchAllocation call whose new quantity, added to the
\* quantities of the other allocations in the allocation's capacity-bound
\* house, exceeds the capacity changes no allocation, is never answered with
\* success, and is answered CapacityExceeded once it has reached the
\* capacity check
C23_UpdateCapacityOthersCounted ==
  [][\A r \in Reqs :
       UpdateOverCapacity(r) =>
         /\ allocations' = allocations
         /\ pc'[r] = "done" => res'[r].status >= 400
         /\ (pc[r] \in {"ubaFindHouse", "ubaSave"} /\ pc'[r] = "done")
              => res'[r].error \in {"CapacityExceeded", "StorageError"}]_vars

(***************************************************************************)
(* The order of the checks of createBatchAllocation.                       *)
(***************************************************************************)
\* the answer the stated order of checks gives to a createBatchAllocation
\* request in the current store: (1) batch missing, foreign or archived,
\* (2) house missing or foreign, (3) quantity above the unallocated count,
\* (4) capacity exceeded, else none
FirstFailingCheck(q) ==
  LET batch == FindBatch(q.batchId, q.farmId)
      house == FindHouse(q.houseId, q.farmId)
  IN IF IsNull(batch) \/ Val(batch).isArchived THEN "NotFound"
     ELSE IF IsNull(house) THEN "NotFound"
     ELSE IF q.quantity > unallocatedOfBatch(q.batchId)
       THEN "InsufficientUnallocated"
     ELSE IF Val(house).hasCapacity
             /\ occupancyOfHouse(q.houseId) + q.quantity > Val(house).capacity
       THEN "CapacityExceeded"
     ELSE "none"

\* C24: createBatchAllocation answers with the first failing check of the
\* stated order: batch, house, InsufficientUnallocated, CapacityExceeded; a
\* call that none of them fails is the only one answered 201
C24_ChecksInStatedOrder ==
  [][\A r \in Reqs :
       (req[r].op = "createBatchAllocation"
          /\ pc[r] \in {"cbaFindBatch", "cbaGetAllocatedCount", "cbaFindHouse",
                        "cbaFindExisting", "cbaFindHouseAllocations", "cbaSave"}
          /\ pc'[r] = "done")
         => res'[r].error = FirstFailingCheck(req[r])]_vars

\* a request that names a house that does not exist, with a quantity within
\* the unallocated count, has been answered NotFound
C24_MissingHouseNotFound ==
  \E r \in Reqs :
    /\ pc[r] = "done" /\ req[r].op = "createBatchAllocation"
    /\ req[r].houseId = "h9" /\ req[r].batchId = "b2"
    /\ res[r].status = 404
    /\ allocatedOfBatch("b2") = 1

(***************************************************************************)
(* Invariants of the allocations in every state.                           *)
(***************************************************************************)
\* C25: in every reachable state, whatever sequence of createBatchAllocation,
\* updateBatchAllocation, transferBirds, updateBirdCounts and updateBatch
\* calls led to it, the allocation quantities of every batch sum to at most
\* the batch's currentCount
C25_InvariantAEverywhere ==
  \A b \in DOMAIN batches : allocatedOfBatch(b) <= currentCount(batches[b])

\* a loss has been recorded on a batch that has birds allocated
C25_LossOnAllocatedBatch ==
  /\ "b1" \in DOMAIN batches
  /\ batches["b1"].dead = 1
  /\ allocatedOfBatch("b1") = 2
  /\ Quiescent

\* C26: in every reachable state the quantity of every allocation is a
\* non-negative integer, whatever quantities (zero and negative ones
\* included) the createBatchAllocation, updateBatchAllocation and
\* transferBirds requests carry
C26_QuantitiesNonNegative ==
  \A i \in DOMAIN allocations : allocations[i].quantity >= 0

\* a transfer of a negative quantity has been carried out and has left the
\* destination allocation with a negative quantity
C26_NegativeTransferAccepted ==
  \E r \in Reqs :
    /\ pc[r] = "done" /\ req[r].op = "transferBirds"
    /\ req[r].quantity < 0 /\ res[r].status = 200
    /\ req[r].houseId # req[r].toHouseId
    /\ Val(FindAllocation(req[r].batchId, req[r].houseId)).quantity > 0
    /\ Val(FindAllocation(req[r].batchId, req[r].toHouseId)).quantity < 0

(***************************************************************************)
(* Concurrent writers of the allocations.                                  *)
(***************************************************************************)
\* C27: in every reachable state at most one allocation record exists for a
\* pair of batch and house, also after concurrent createBatchAllocation
\* calls that target a pair without a record
C27_OneRecordPerPair ==
  \A i, j \in DOMAIN allocations :
    (allocations[i].batchId = allocations[j].batchId
       /\ allocations[i].houseId = allocations[j].houseId) => i = j

\* a second placement into a pair that had a record has increased the
\* quantity of that record
C27_SecondPlacementAdded ==
  /\ \A r \in Reqs :
       /\ pc[r] = "done" /\ res[r].status = 201
       /\ req[r].batchId = "b1" /\ req[r].houseId = "h2"
  /\ Len(allocations) = 1
  /\ allocations[1].quantity = 2

\* a write of request r to an allocation record that existed when r read it
WritesExisting(r, label, name) ==
  /\ pc[r] = label
  /\ pc'[r] # label
  /\ ~IsNull(loc[r][name])

\* C28: no update of an allocation quantity is lost: every write of a
\* createBatchAllocation or transferBirds call to an existing record changes
\* the stored quantity by exactly the call's quantity, whatever other calls
\* wrote to the record in the meantime, so that the quantity after two
\* successful calls with q1 and q2 is the initial quantity plus q1 + q2
C28_NoLostUpdate ==
  [][\A r \in Reqs :
       /\ WritesExisting(r, "cbaSave", "allocation")
            => allocations' = Moved(allocations, req[r].batchId, req[r].houseId,
                                    req[r].quantity)
       /\ WritesExisting(r, "tbSaveFrom", "fromAllocation")
            => allocations' = Moved(allocations, req[r].batchId, req[r].houseId,
                                    0 - req[r].quantity)
       /\ WritesExisting(r, "tbSaveTo", "toAllocation")
            => allocations' = Moved(allocations, req[r].batchId, req[r].toHouseId,
                                    req[r].quantity)]_vars

\* two successful createBatchAllocation calls have increased a record that
\* existed before both of them
C28_TwoToppedUp ==
  /\ \A r \in Reqs :
       /\ pc[r] = "done" /\ res[r].status = 201
       /\ req[r].op = "createBatchAllocation" /\ req[r].houseId = "h2"
  /\ calls >= 3
  /\ Len(allocations) = 1
  /\ allocations[1].houseId = "h2"

\* C29: a transfer conserves the birds of its batch: with calls made one
\* after the other and a storage that does not fail, the debit of a
\* transferBirds call that is then answered 200 takes the quantity out of
\* the batch's allocations and its credit puts the quantity back, so that
\* the sum of the batch's allocation quantities after the call equals the
\* sum before it, also when fromHouseId = toHouseId
C29_TransferConserves ==
  [][\A r \in Reqs :
       /\ (pc[r] = "tbSaveFrom" /\ pc'[r] = "tbSaveTo"
            /\ ~IsNull(loc[r].toAllocation))
            => allocatedOfBatch(req[r].batchId)'
                 = allocatedOfBatch(req[r].batchId) - req[r].quantity
       /\ (pc[r] = "tbSaveTo" /\ pc'[r] = "done" /\ res'[r].status = 200)
            => allocatedOfBatch(req[r].batchId)'
                 = allocatedOfBatch(req[r].batchId) + req[r].quantity]_vars

\* a transfer between two different houses has been answered 200 and every
\* bird of the batch's allocations is still allocated
C29_TransferAccepted ==
  \E r \in Reqs :
    /\ pc[r] = "done" /\ req[r].op = "transferBirds" /\ res[r].status = 200
    /\ req[r].houseId # req[r].toHouseId
    /\ req[r].batchId = "b1"
    /\ allocatedOfBatch("b1") = 3

RECURSIVE auditedTotal(_, _)
\* sum of the deltas of counter f recorded by the audit entries of chain
auditedTotal(chain, f) ==
  IF chain = <<>> THEN 0 ELSE Head(chain)[f] + auditedTotal(Tail(chain), f)

\* C30: every change of the loss counters is recorded: whenever no call is
\* in flight, each counter of each stored batch equals the sum of the deltas
\* of the batch's audit entries (the counters start at zero), whatever
\* operations were called and whichever storage calls failed
C30_CountersAudited ==
  Quiescent =>
    \A b \in DOMAIN batches :
      /\ batches[b].dead = auditedTotal(AuditChain(b), "dead")
      /\ batches[b].culled = auditedTotal(AuditChain(b), "culled")
      /\ batches[b].offlaid = auditedTotal(AuditChain(b), "offlaid")

\* two updateBirdCounts calls have been answered 200 and the counters of
\* the batch are the sums of the deltas of its two audit entries
C30_IncrementsAudited ==
  /\ Quiescent
  /\ "b1" \in DOMAIN batches
  /\ Len(AuditChain("b1")) = 2
  /\ batches["b1"].dead = 2
  /\ auditedTotal(AuditChain("b1"), "dead") = 2
  /\ \E r \in Reqs : Succeeded(r)

====
